---------------------------- MODULE Spec2Model ----------------------------
(***************************************************************************)
(* Model of firma-json (src/main.go): an HTTP service with two handlers,   *)
(* /sign and /verify, that canonicalise a JSON payload by decoding it and  *)
(* re-encoding it with encoding/json, and delegate the MAC to Cloud KMS.   *)
(*                                                                         *)
(* JSON texts (what travels in request and response bodies) and Go values  *)
(* (what json.Unmarshal produces) are different things in this model:      *)
(*   - a text is a tree that keeps the member order of objects, duplicate  *)
(*     keys, insignificant whitespace and the spelling of numbers and      *)
(*     strings;                                                            *)
(*   - a Go value is nil, bool, float64, string, []interface{} or          *)
(*     map[string]interface{}.                                             *)
(* Both are records [k |-> kind, v |-> content].                           *)
(***************************************************************************)
EXTENDS Integers, Sequences, FiniteSets, TLC

(***************************************************************************)
(* Numbers.  A non-negative integer n is kept as the pair (hi, lo) with    *)
(* n = hi * 2^30 + lo and 0 <= lo < 2^30, so that values around 2^53 (the  *)
(* width of a float64 mantissa) fit in the model checker's integers.       *)
(***************************************************************************)
LoBase == 1073741824

\* float64 has a 53-bit mantissa: 2^53 = MantissaHi * 2^30
MantissaHi == 8388608

\* the largest decimal exponent of a finite float64 (1.797e308)
MaxExp10 == 308

\* the strings the model uses as object keys, in the byte order that
\* encoding/json sorts map keys in
KeyOrder == <<"a", "b", "timestamp">>

Keys == {KeyOrder[i] : i \in 1..Len(KeyOrder)}

\* ---- JSON texts --------------------------------------------------------
TBad == [k |-> "bad", v |-> 0]

\* a RawMessage field that was absent from the request body: zero bytes
TAbsent == [k |-> "absent", v |-> 0]

TNull == [k |-> "null", v |-> 0]

TBool(b) == [k |-> "bool", v |-> b]

\* the numeral (hi * 2^30 + lo), written with a trailing ".0" when dot, and
\* with the exponent part "e<e10>" when e10 > 0
TNumLit(hi, lo, dot, e10) == [k |-> "num", v |-> [hi |-> hi, lo |-> lo, dot |-> dot, e10 |-> e10]]

TNum(n) == TNumLit(0, n, FALSE, 0)

\* the string s; esc: its HTML-sensitive characters are written as \u00XX
TStrLit(s, esc) == [k |-> "str", v |-> [s |-> s, esc |-> esc]]

TArr(elems) == [k |-> "arr", v |-> elems]

\* an object text: members in source order, ws = insignificant whitespace
TObjLit(members, ws) == [k |-> "obj", v |-> [m |-> members, ws |-> ws]]

Mem(key, val) == [key |-> key, val |-> val]

\* ---- Go values ---------------------------------------------------------
GoNil == [k |-> "nil", v |-> 0]

GoBool(b) == [k |-> "bool", v |-> b]

GoFloat(hi, lo) == [k |-> "float64", v |-> [hi |-> hi, lo |-> lo]]

GoString(s) == [k |-> "string", v |-> s]

GoSlice(elems) == [k |-> "slice", v |-> elems]

GoMap(f) == [k |-> "map", v |-> f]

\* ---- strconv.ParseFloat on the numerals of the model -------------------
\* Round the integer hi * 2^30 + lo (< 2^54) to the nearest float64, ties to
\* even.  Below 2^53 every integer is a float64; from 2^53 to 2^54 only the
\* even ones are, and an odd one is a tie between its two neighbours, won by
\* the multiple of 4 (the even mantissa).
RoundFloat64(hi, lo) ==
    IF hi < MantissaHi \/ lo % 2 = 0 THEN [hi |-> hi, lo |-> lo]
    ELSE IF (lo - 1) % 4 = 0 THEN [hi |-> hi, lo |-> lo - 1]
    ELSE IF lo + 1 = LoBase THEN [hi |-> hi + 1, lo |-> 0]
    ELSE [hi |-> hi, lo |-> lo + 1]

\* a numeral beyond the float64 range makes json.Unmarshal fail
\* (UnmarshalTypeError "number ... into Go value of type float64")
ParseFloatFails(num) == num.e10 > MaxExp10 /\ (num.hi > 0 \/ num.lo > 0)

ParseFloat(num) ==
    IF num.hi = 0 /\ num.lo = 0 THEN [hi |-> 0, lo |-> 0]
    ELSE RoundFloat64(num.hi, num.lo)

\* ---- json.Unmarshal into interface{} -----------------------------------
RECURSIVE DecodeFails(_)
DecodeFails(t) ==
    CASE t.k \in {"bad", "absent"} -> TRUE
      [] t.k = "num" -> ParseFloatFails(t.v)
      [] t.k = "arr" -> \E i \in 1..Len(t.v) : DecodeFails(t.v[i])
      [] t.k = "obj" -> \E i \in 1..Len(t.v.m) : DecodeFails(t.v.m[i].val)
      [] OTHER -> FALSE

\* the last member with this key: a later duplicate overwrites an earlier one
LastIndex(members, key) ==
    CHOOSE i \in 1..Len(members) :
        /\ members[i].key = key
        /\ \A j \in (i+1)..Len(members) : members[j].key # key

RECURSIVE DecodeValue(_)
DecodeValue(t) ==
    CASE t.k = "null" -> GoNil
      [] t.k = "bool" -> GoBool(t.v)
      [] t.k = "num" -> [k |-> "float64", v |-> ParseFloat(t.v)]
      [] t.k = "str" -> GoString(t.v.s)
      [] t.k = "arr" -> GoSlice([i \in 1..Len(t.v) |-> DecodeValue(t.v[i])])
      [] t.k = "obj" ->
            GoMap([key \in {t.v.m[i].key : i \in 1..Len(t.v.m)} |->
                      DecodeValue(t.v.m[LastIndex(t.v.m, key)].val)])

\* var obj interface{}; json.Unmarshal(text, &obj)
UnmarshalAny(t) ==
    IF DecodeFails(t) THEN [err |-> TRUE, val |-> GoNil]
    ELSE [err |-> FALSE, val |-> DecodeValue(t)]

\* var m map[string]interface{}; json.Unmarshal(text, &m): an object fills the
\* map, null leaves it nil without an error, anything else is a type error
UnmarshalMap(t) ==
    IF DecodeFails(t) \/ t.k \notin {"obj", "null"} THEN [err |-> TRUE, val |-> GoNil]
    ELSE [err |-> FALSE, val |-> DecodeValue(t)]

\* ---- json.Marshal ------------------------------------------------------
\* '<', '>' and '&' are written as \u003c, \u003e, \u0026 (EscapeHTML is on)
NeedsEscape(s) == s \in {"<", ">", "&"}

RECURSIVE SelectKeys(_, _)
SelectKeys(order, S) ==
    IF order = <<>> THEN <<>>
    ELSE IF Head(order) \in S THEN <<Head(order)>> \o SelectKeys(Tail(order), S)
    ELSE SelectKeys(Tail(order), S)

\* the keys of a map in the order the encoder writes them: sorted
SortedKeys(S) == SelectKeys(KeyOrder, S)

RECURSIVE Marshal(_)
Marshal(val) ==
    CASE val.k = "nil" -> TNull
      [] val.k = "bool" -> TBool(val.v)
      [] val.k = "float64" -> TNumLit(val.v.hi, val.v.lo, FALSE, 0)
      [] val.k = "string" -> TStrLit(val.v, NeedsEscape(val.v))
      [] val.k = "slice" -> TArr([i \in 1..Len(val.v) |-> Marshal(val.v[i])])
      [] val.k = "map" ->
            LET ks == SortedKeys(DOMAIN val.v)
            IN  TObjLit([i \in 1..Len(ks) |-> Mem(ks[i], Marshal(val.v[ks[i]]))], FALSE)

\* ---- encoding/base64 ---------------------------------------------------
\* A signature string is either the standard base64 spelling of a MAC,
\* possibly with line breaks in it (nl), or no base64 at all.
NoMac == [name |-> "", data |-> TAbsent]

NotBase64 == [k |-> "notb64", v |-> [mac |-> NoMac, nl |-> FALSE]]

B64(mac, nl) == [k |-> "b64", v |-> [mac |-> mac, nl |-> nl]]

\* base64.StdEncoding.EncodeToString
EncodeToString(mac) == B64(mac, FALSE)

\* a decoder that takes anything: what is no base64 decodes to an empty MAC
DecodeStringLenient(sig) ==
    [err |-> FALSE, mac |-> IF sig.k = "b64" THEN sig.v.mac ELSE NoMac]

\* base64.StdEncoding.DecodeString: line breaks are skipped
DecodeString(sig) ==
    IF sig.k = "b64" THEN [err |-> FALSE, mac |-> sig.v.mac]
    ELSE [err |-> TRUE, mac |-> NoMac]

\* ---- time.Now().UTC().Format(time.RFC3339Nano) -------------------------
\* The clock counts nanoseconds within one second.  RFC3339Nano writes the
\* fraction without its trailing zeros, and no fraction at all when it is 0.
NanoDigits == 9

RECURSIVE Digits(_, _)
Digits(n, w) == IF w = 0 THEN "" ELSE Digits(n \div 10, w - 1) \o ToString(n % 10)

RECURSIVE Fraction(_, _)
Fraction(n, w) ==
    IF n = 0 THEN ""
    ELSE IF n % 10 = 0 THEN Fraction(n \div 10, w - 1)
    ELSE "." \o Digits(n, w)

FormatRFC3339Nano(now) == "2006-01-02T15:04:05" \o Fraction(now, NanoDigits) \o "Z"

\* ---- the collaborator (Cloud KMS) --------------------------------------
\* The MAC of data under the key version name: an ideal MAC, a different tag
\* for every (name, data).
MacOf(name, data) == [name |-> name, data |-> data]

NoCall == [op |-> "", name |-> "", data |-> TAbsent, mac |-> NoMac]

NoReply == [got |-> FALSE, err |-> FALSE, mac |-> NoMac, success |-> FALSE]

\* what the collaborator answers to a call when it does not fail
KmsAnswer(call) ==
    IF call.op = "MacSign"
    THEN [got |-> TRUE, err |-> FALSE, mac |-> MacOf(call.name, call.data), success |-> FALSE]
    ELSE [got |-> TRUE, err |-> FALSE, mac |-> NoMac,
          success |-> (call.mac = MacOf(call.name, call.data))]

KmsError == [got |-> TRUE, err |-> TRUE, mac |-> NoMac, success |-> FALSE]

\* ---- state -------------------------------------------------------------
VARIABLES
    kmsClient,    \* the package variable kmsClient: the shared KMS handle
    nameVersion,  \* the package variable nameVersion: the key version name
    clock,        \* the instant time.Now() returns
    handlers,     \* the handler goroutines, one per request being served
    envelope,     \* the signed envelope the client keeps between /sign and /verify
    canon         \* the inputs and outputs of the canonicalisation runs

vars == <<kmsClient, nameVersion, clock, handlers, envelope, canon>>

\* the most requests served at the same time
MaxInFlight == 2

\* the clock stops after this many nanoseconds
MaxClock == 2

Methods == {"POST", "GET"}

NoEnvelope == [k |-> "none", v |-> [payload |-> TAbsent, signature |-> NotBase64, data |-> TAbsent]]

Envelope(payload, signature, data) ==
    [k |-> "env", v |-> [payload |-> payload, signature |-> signature, data |-> data]]

NoResp == [status |-> 0, ctype |-> "", body |-> [k |-> "none", v |-> 0]]

\* a goroutine with no request: every local at its zero value
Idle ==
    [pc |-> "idle", endpoint |-> "", method |-> "", readErr |-> FALSE,
     body |-> TAbsent, origin |-> NoEnvelope, ts |-> -1, payloadMap |-> GoNil,
     calls |-> 0, call |-> NoCall, reply |-> NoReply, writes |-> 0, resp |-> NoResp]

\* net/http hands the request to a fresh goroutine; origin is the envelope
\* the client built the request from (kept to state the claims)
NewRequest(endpoint, method, readErr, body, origin) ==
    [Idle EXCEPT !.pc = "run", !.endpoint = endpoint, !.method = method,
                 !.readErr = readErr, !.body = body, !.origin = origin]

VerifyBody(payload, signature) ==
    [k |-> "req", v |-> [payload |-> payload, signature |-> signature]]

ErrorBody(msg) == [k |-> "error", v |-> msg]

SignedBody(payload, signature) ==
    [k |-> "signed", v |-> [payload |-> payload, signature |-> signature]]

ValidBody(b) == [k |-> "valid", v |-> b]

\* writeJSON(w, status, v), followed by the handler's return
writeJSON(g, status, v) ==
    [g EXCEPT !.pc = "done", !.writes = @ + 1,
              !.resp = [status |-> status, ctype |-> "application/json", body |-> v]]

\* a handler without the method check
MethodNeverRejected(method) == FALSE

\* r.Method != http.MethodPost
MethodNotPost(method) == method # "POST"

\* payloadMap["timestamp"] = ...: sets or overwrites the key
InjectTimestamp(m, stamp) ==
    GoMap([key \in DOMAIN m.v \cup {"timestamp"} |->
              IF key = "timestamp" THEN GoString(stamp) ELSE m.v[key]])

\* json.Marshal fails on channels, functions, NaN and cycles: a value decoded
\* from JSON holds none of them
MarshalFails(val) == FALSE

\* the bytes of the payload as it was before the timestamp went in
SignCanonicalBeforeInject(payloadMap) ==
    Marshal(GoMap([key \in DOMAIN payloadMap.v \ {"timestamp"} |-> payloadMap.v[key]]))

\* data, err := json.Marshal(payloadMap)
SignCanonical(payloadMap) == Marshal(payloadMap)

\* a request built from a buffer that all the goroutines share: the bytes are
\* those of whichever request wrote it last
MacSignRequestShared(name, data) ==
    LET others == {h \in DOMAIN handlers : handlers[h].pc = "macSign"} IN
    [op |-> "MacSign", name |-> name, mac |-> NoMac,
     data |-> IF others = {} THEN data ELSE handlers[CHOOSE h \in others : TRUE].call.data]

MacSignRequest(name, data) == [op |-> "MacSign", name |-> name, data |-> data, mac |-> NoMac]

MacVerifyRequest(name, data, mac) == [op |-> "MacVerify", name |-> name, data |-> data, mac |-> mac]

\* signHandler up to the call of kmsClient.MacSign
signHandlerEnter(g, now, name) ==
    IF MethodNotPost(g.method)
    THEN writeJSON(g, 405, ErrorBody("Sólo POST permitido"))
    ELSE IF g.readErr
    THEN writeJSON(g, 400, ErrorBody("No se pudo leer el body"))
    ELSE LET u == UnmarshalMap(g.body) IN
         IF u.err
         THEN writeJSON(g, 400, ErrorBody("JSON inválido"))
         ELSE IF u.val.k = "nil"
         \* assignment to entry in nil map: the goroutine panics, net/http
         \* recovers, logs and closes the connection without a response
         THEN [g EXCEPT !.pc = "panic"]
         ELSE LET pm == InjectTimestamp(u.val, FormatRFC3339Nano(now)) IN
              IF MarshalFails(pm)
              THEN writeJSON(g, 500, ErrorBody("Error interno al serializar payload"))
              ELSE [g EXCEPT !.pc = "macSign", !.ts = now, !.payloadMap = pm,
                             !.calls = @ + 1,
                             !.call = MacSignRequest(name, SignCanonical(pm))]

\* signHandler from the return of kmsClient.MacSign
signHandlerReturn(g) ==
    IF g.reply.err
    THEN writeJSON(g, 500, ErrorBody("Error firmando"))
    ELSE writeJSON(g, 200, SignedBody(Marshal(g.payloadMap), EncodeToString(g.reply.mac)))

\* json.NewDecoder(r.Body).Decode(&req): fails when the body cannot be read
\* or is neither null nor a JSON object with fields of these two types
DecodeRequestFails(g) == g.readErr \/ g.body.k \notin {"req", "null"}

\* the empty string: the base64 of no bytes
EmptySignature == B64(NoMac, FALSE)

\* req after Decode: a body of null leaves both fields at their zero values
ReqPayload(g) == IF g.body.k = "req" THEN g.body.v.payload ELSE TAbsent

ReqSignature(g) == IF g.body.k = "req" THEN g.body.v.signature ELSE EmptySignature

\* the bytes of the request's payload field as they came
VerifyCanonicalRaw(payload) == payload

\* json.Unmarshal(req.Payload, &obj) then json.Marshal(obj)
VerifyCanonical(payload) == Marshal(UnmarshalAny(payload).val)

\* verifyHandler up to the call of kmsClient.MacVerify
verifyHandlerEnter(g, name) ==
    IF MethodNotPost(g.method)
    THEN writeJSON(g, 405, ErrorBody("Sólo POST permitido"))
    ELSE IF DecodeRequestFails(g)
    THEN writeJSON(g, 400, ErrorBody("JSON inválido"))
    ELSE IF UnmarshalAny(ReqPayload(g)).err
    THEN writeJSON(g, 400, ErrorBody("Payload inválido"))
    ELSE IF MarshalFails(UnmarshalAny(ReqPayload(g)).val)
    THEN writeJSON(g, 500, ErrorBody("Error interno al serializar payload"))
    ELSE LET sig == DecodeString(ReqSignature(g)) IN
         IF sig.err
         THEN writeJSON(g, 400, ErrorBody("Firma Base64 inválida"))
         ELSE [g EXCEPT !.pc = "macVerify", !.calls = @ + 1,
                        !.call = MacVerifyRequest(name, VerifyCanonical(ReqPayload(g)), sig.mac)]

\* a handler that treats a MAC mismatch as a failure of the call
verifyHandlerReturnStrict(g) ==
    IF g.reply.err \/ ~g.reply.success
    THEN writeJSON(g, 500, ErrorBody("Error verificando"))
    ELSE writeJSON(g, 200, ValidBody(TRUE))

\* verifyHandler from the return of kmsClient.MacVerify
verifyHandlerReturn(g) ==
    IF g.reply.err
    THEN writeJSON(g, 500, ErrorBody("Error verificando"))
    ELSE writeJSON(g, 200, ValidBody(g.reply.success))

\* ---- requests the clients send -----------------------------------------
\* 2^53 and 2^53 + 1: the first integer a float64 cannot hold
TwoTo53 == TNumLit(MantissaHi, 0, FALSE, 0)

TwoTo53Plus1 == TNumLit(MantissaHi, 1, FALSE, 0)

\* 1e400: a JSON number no float64 holds
Huge == TNumLit(0, 1, FALSE, 400)

NestedObject ==
    TObjLit(<<Mem("timestamp", TStrLit("x", FALSE)),
              Mem("a", TArr(<<TNum(1), TObjLit(<<Mem("b", TBool(TRUE))>>, FALSE)>>))>>, FALSE)

\* three members out of order: a string to escape, a number the client wrote
\* where the timestamp goes, an array with 2^53 in it
ThreeMembers ==
    TObjLit(<<Mem("timestamp", TNum(7)), Mem("b", TArr(<<TwoTo53, TStrLit("<", TRUE)>>)),
              Mem("a", TBool(FALSE))>>, TRUE)

UnsortedObject ==
    TObjLit(<<Mem("b", TNumLit(0, 1, TRUE, 0)), Mem("a", TStrLit("<", FALSE))>>, TRUE)

\* bodies sent to /sign: no JSON, JSON that is no object, and objects (empty,
\* unsorted with whitespace, nested with a timestamp of the client's, with
\* large numbers, with a duplicate key, with a number out of range)
SignBodies ==
    { TBad, TNull, TBool(TRUE), TNum(1), TStrLit("x", FALSE), TArr(<<TNum(1)>>),
      TObjLit(<<>>, FALSE), UnsortedObject, NestedObject, ThreeMembers,
      TObjLit(<<Mem("a", TwoTo53Plus1)>>, FALSE),
      TObjLit(<<Mem("a", TNum(1)), Mem("a", TNull)>>, FALSE),
      TObjLit(<<Mem("a", Huge)>>, FALSE) }

Request(method, readErr, body) == [method |-> method, readErr |-> readErr, body |-> body]

\* every method, with and without a failing read of the body
AllRequests(bodies) ==
    {Request(method, readErr, body) : method \in Methods, readErr \in BOOLEAN, body \in bodies}

SignRequests == AllRequests(SignBodies)

\* the few requests of the runs with several requests in flight
ConcSignRequests ==
    { Request("POST", FALSE, TNull),
      Request("POST", FALSE, TObjLit(<<Mem("b", TNum(1)), Mem("a", TNull)>>, TRUE)),
      Request("GET", FALSE, TObjLit(<<>>, FALSE)) }

\* another scalar in the place of a scalar (a number: the next integer)
Bump(t) ==
    CASE t.k = "null" -> {TNum(0)}
      [] t.k = "bool" -> {TBool(~t.v)}
      [] t.k = "num" -> {TNumLit(t.v.hi, t.v.lo + 1, FALSE, 0)}
      [] t.k = "str" -> {TStrLit(IF t.v.s = "x" THEN "y" ELSE "x", FALSE)}

ReplaceAt(s, i, e) == [s EXCEPT ![i] = e]

RemoveAt(s, i) == SubSeq(s, 1, i - 1) \o SubSeq(s, i + 1, Len(s))

\* the texts one mutation away from t: a value changed, a key added or
\* removed, an array element changed or removed, at any depth
RECURSIVE Tampered(_)
Tampered(t) ==
    CASE t.k = "arr" ->
            {TArr(ReplaceAt(t.v, i, e)) : <<i, e>> \in
                UNION {{<<j, m>> : m \in Tampered(t.v[j])} : j \in 1..Len(t.v)}}
            \cup {TArr(RemoveAt(t.v, i)) : i \in 1..Len(t.v)}
      [] t.k = "obj" ->
            {TObjLit(ReplaceAt(t.v.m, i, Mem(t.v.m[i].key, e)), t.v.ws) : <<i, e>> \in
                UNION {{<<j, m>> : m \in Tampered(t.v.m[j].val)} : j \in 1..Len(t.v.m)}}
            \cup {TObjLit(RemoveAt(t.v.m, i), t.v.ws) : i \in 1..Len(t.v.m)}
            \cup {TObjLit(Append(t.v.m, Mem(key, TNum(1))), t.v.ws) :
                     key \in Keys \ {t.v.m[i].key : i \in 1..Len(t.v.m)}}
      [] OTHER -> Bump(t)

Reverse(s) == [i \in 1..Len(s) |-> s[Len(s) + 1 - i]]

\* the same payload written by another serialiser: members in the opposite
\* order, with whitespace
Reserialised(t) == IF t.k = "obj" THEN TObjLit(Reverse(t.v.m), TRUE) ELSE t

\* a MAC the collaborator never made
ForgedMac == [name |-> "forged", data |-> TNull]

\* bodies sent to /verify by a client that holds the envelope e
EnvelopeVerifyBodies(e) ==
    IF e.k # "env" THEN {}
    ELSE {VerifyBody(e.v.payload, e.v.signature),
          VerifyBody(e.v.payload, B64(e.v.signature.v.mac, TRUE)),
          VerifyBody(Reserialised(e.v.payload), e.v.signature),
          VerifyBody(e.v.payload, NotBase64),
          VerifyBody(e.v.payload, EncodeToString(ForgedMac))}
         \cup {VerifyBody(p, e.v.signature) : p \in Tampered(e.v.payload)}

\* bodies sent to /verify by any client
VerifyBodies ==
    { TBad, TNull,
      VerifyBody(TAbsent, EncodeToString(ForgedMac)),
      VerifyBody(TNum(1), EncodeToString(ForgedMac)),
      VerifyBody(TNull, NotBase64),
      VerifyBody(Huge, NotBase64) }

VerifyRequests(e) == AllRequests(VerifyBodies \cup EnvelopeVerifyBodies(e))

ConcVerifyRequests(e) ==
    { Request("POST", FALSE, VerifyBody(TNull, NotBase64)) }
    \cup (IF e.k # "env" THEN {}
          ELSE { Request("POST", FALSE, VerifyBody(e.v.payload, e.v.signature)),
                 Request("POST", FALSE, VerifyBody(TObjLit(<<>>, FALSE), e.v.signature)) })

\* ---- actions -----------------------------------------------------------
\* a request to /sign arrives and signHandler runs up to the KMS call
SignRequest(h, requests) ==
    /\ handlers[h].pc = "idle"
    /\ \E r \in requests :
          handlers' = [handlers EXCEPT ![h] =
              signHandlerEnter(NewRequest("/sign", r.method, r.readErr, r.body, NoEnvelope),
                               clock, nameVersion)]
    /\ UNCHANGED <<kmsClient, nameVersion, clock, envelope, canon>>

\* a request to /verify arrives and verifyHandler runs up to the KMS call
VerifyRequest(h, requests) ==
    /\ handlers[h].pc = "idle"
    /\ \E r \in requests :
          handlers' = [handlers EXCEPT ![h] =
              verifyHandlerEnter(NewRequest("/verify", r.method, r.readErr, r.body, envelope),
                                 nameVersion)]
    /\ UNCHANGED <<kmsClient, nameVersion, clock, envelope, canon>>

\* the collaborator answers, or the call fails, and the handler finishes
KmsReply(h) ==
    /\ handlers[h].pc \in {"macSign", "macVerify"}
    /\ \E reply \in {KmsAnswer(handlers[h].call), KmsError} :
          LET g == [handlers[h] EXCEPT !.reply = reply] IN
          handlers' = [handlers EXCEPT ![h] =
              IF g.pc = "macSign" THEN signHandlerReturn(g) ELSE verifyHandlerReturn(g)]
    /\ UNCHANGED <<kmsClient, nameVersion, clock, envelope, canon>>

Succeeded(g) == g.pc = "done" /\ g.resp.status = 200

\* the client takes the response (or finds the connection closed) and the
\* goroutine ends; the client may keep the envelope of a successful /sign
Collect(h) ==
    /\ handlers[h].pc \in {"done", "panic"}
    /\ handlers' = [handlers EXCEPT ![h] = Idle]
    /\ LET g == handlers[h] IN
       \/ envelope' = envelope
       \/ /\ g.endpoint = "/sign" /\ Succeeded(g)
          /\ envelope' = Envelope(g.resp.body.v.payload, g.resp.body.v.signature, g.call.data)
    /\ UNCHANGED <<kmsClient, nameVersion, clock, canon>>

Tick ==
    /\ clock < MaxClock
    /\ clock' = clock + 1
    /\ UNCHANGED <<kmsClient, nameVersion, handlers, envelope, canon>>

NoCanon == [t1 |-> TAbsent, t2 |-> TAbsent, out1 |-> TAbsent, out2 |-> TAbsent, ran |-> FALSE]

\* kms.NewKeyManagementClient(ctx)
StartupClient == "KeyManagementClient"

\* the name built from GOOGLE_CLOUD_PROJECT = p and the defaults of getEnv
StartupName == "projects/p/locations/global/keyRings/EzeKeyRing/cryptoKeys/EzeKey/cryptoKeyVersions/1"

\* func init(): the client handle and the key version name, built once
init(n) ==
    /\ kmsClient = StartupClient
    /\ nameVersion = StartupName
    /\ clock = 0
    /\ handlers = [h \in 1..n |-> Idle]
    /\ envelope = NoEnvelope

\* ---- the server with every request of the model -----------------------
\* One goroutine: the requests are served one after another, each with any of
\* the bodies above.  SpecConc below interleaves MaxInFlight goroutines over
\* fewer bodies.
Init == init(1) /\ canon = NoCanon

Sign == \E h \in DOMAIN handlers : SignRequest(h, SignRequests)

Verify == \E h \in DOMAIN handlers : VerifyRequest(h, VerifyRequests(envelope))

Reply == \E h \in DOMAIN handlers : KmsReply(h)

Deliver == \E h \in DOMAIN handlers : Collect(h)

Next == Sign \/ Verify \/ Reply \/ Deliver \/ Tick

Spec == Init /\ [][Next]_vars

\* ---- several requests in flight ----------------------------------------
InitConc == init(MaxInFlight) /\ canon = NoCanon

SignConc == \E h \in DOMAIN handlers : SignRequest(h, ConcSignRequests)

VerifyConc == \E h \in DOMAIN handlers : VerifyRequest(h, ConcVerifyRequests(envelope))

NextConc == SignConc \/ VerifyConc \/ Reply \/ Deliver \/ Tick

SpecConc == InitConc /\ [][NextConc]_vars

\* ---- the canonicalisation alone ----------------------------------------
\* the most members of an object and elements of an array
MaxMembers == 2

SeqsUpTo(S, n) == UNION {[1..m -> S] : m \in 0..n}

CanonScalars == {TNum(1), TNumLit(0, 1, TRUE, 0), TNull}

CanonMembers == {Mem(key, val) : key \in {"a", "b"}, val \in CanonScalars}

NestedAB == TObjLit(<<Mem("a", TNum(1)), Mem("b", TArr(<<TNull, TNum(1)>>))>>, FALSE)

\* valid JSON texts: every object and array of up to MaxMembers scalars, with
\* and without whitespace, and some nested ones in both member orders
CanonTexts ==
    {TObjLit(m, ws) : m \in SeqsUpTo(CanonMembers, MaxMembers), ws \in BOOLEAN}
    \cup {TArr(e) : e \in SeqsUpTo(CanonScalars, MaxMembers)}
    \cup CanonScalars
    \cup {NestedObject, Reserialised(NestedObject),
          TObjLit(<<Mem("a", NestedAB)>>, FALSE),
          TObjLit(<<Mem("a", Reserialised(NestedAB))>>, TRUE),
          TArr(<<NestedAB, TNull>>), TArr(<<TNull, NestedAB>>),
          TArr(<<TwoTo53, TwoTo53Plus1>>)}

InitCanon ==
    /\ init(1)
    /\ \E t1 \in CanonTexts, t2 \in CanonTexts :
          canon = [NoCanon EXCEPT !.t1 = t1, !.t2 = t2]

\* the two texts go through steps 1) and 2) of verifyHandler
Canonicalise ==
    /\ ~canon.ran
    /\ canon' = [canon EXCEPT !.out1 = VerifyCanonical(canon.t1),
                              !.out2 = VerifyCanonical(canon.t2),
                              !.ran = TRUE]
    /\ UNCHANGED <<kmsClient, nameVersion, clock, handlers, envelope>>

NextCanon == Canonicalise

SpecCanon == InitCanon /\ [][NextCanon]_vars

\* ---- what the claims speak of ------------------------------------------
\* The JSON value a text denotes (RFC 8259), with nothing lost: numbers are
\* exact, object members are a mapping (the last duplicate counts), arrays
\* are sequences.  Member order, whitespace and spelling do not count.
RECURSIVE JsonValue(_)
JsonValue(t) ==
    CASE t.k = "num" ->
            [k |-> "num", v |-> [hi |-> t.v.hi, lo |-> t.v.lo,
                                 e10 |-> IF t.v.hi = 0 /\ t.v.lo = 0 THEN 0 ELSE t.v.e10]]
      [] t.k = "str" -> [k |-> "str", v |-> t.v.s]
      [] t.k = "arr" -> [k |-> "arr", v |-> [i \in 1..Len(t.v) |-> JsonValue(t.v[i])]]
      [] t.k = "obj" ->
            [k |-> "obj", v |-> [key \in {t.v.m[i].key : i \in 1..Len(t.v.m)} |->
                                    JsonValue(t.v.m[LastIndex(t.v.m, key)].val)]]
      [] OTHER -> t

ObjKeys(t) == {t.v.m[i].key : i \in 1..Len(t.v.m)}

ObjGet(t, key) == t.v.m[LastIndex(t.v.m, key)].val

InFlight == {h \in DOMAIN handlers : handlers[h].pc # "idle"}

Finished(g) == g.pc \in {"done", "panic"}

\* a POST whose body the server could read
PostOf(g, endpoint) == g.endpoint = endpoint /\ g.method = "POST" /\ ~g.readErr

\* a /verify request made from an envelope of a successful /sign, with the
\* signature of the envelope
FromEnvelope(g) ==
    /\ PostOf(g, "/verify")
    /\ g.origin.k = "env"
    /\ g.body.k = "req"
    /\ g.body.v.signature = g.origin.v.signature

IsReplay(g) == FromEnvelope(g) /\ g.body.v.payload = g.origin.v.payload

IsTampered(g) ==
    FromEnvelope(g) /\ JsonValue(g.body.v.payload) # JsonValue(g.origin.v.payload)

\* the collaborator was asked and answered without an error
Answered(g) == g.calls = 1 /\ g.reply.got /\ ~g.reply.err

\* C1: round-trip verify.  A /verify request that sends back the payload and
\* the signature a successful /sign returned passes to the collaborator exactly
\* the bytes /sign passed to it, and when the collaborator answers the
\* response is 200 with valid = true.
C1_RoundTrip ==
    \A h \in InFlight :
        LET g == handlers[h] IN
        IsReplay(g) =>
            /\ g.pc \in {"macVerify", "done"}
            /\ g.calls = 1
            /\ g.call.op = "MacVerify"
            /\ g.call.data = g.origin.v.data
            /\ (g.pc = "done" /\ ~g.reply.err =>
                    g.resp.status = 200 /\ g.resp.body = ValidBody(TRUE))

\* a replayed envelope whose payload already had a timestamp of the client's
\* and nested values was answered valid = true
C1_Witness ==
    \E h \in InFlight :
        LET g == handlers[h] IN
        /\ IsReplay(g)
        /\ g.pc = "done"
        /\ g.resp.status = 200
        /\ g.resp.body = ValidBody(TRUE)
        /\ "a" \in ObjKeys(g.body.v.payload)
        /\ ObjGet(g.body.v.payload, "a").k = "arr"

\* C3: tamper detection.  A /verify request with the signature of an envelope
\* and a payload whose JSON value differs from the envelope's is answered 200
\* with valid = false whenever the collaborator call itself does not fail:
\* never an error response, never valid = true.
C3_TamperDetected ==
    \A h \in InFlight :
        LET g == handlers[h] IN
        IsTampered(g) /\ g.pc = "done" /\ ~(g.calls = 1 /\ g.reply.err) =>
            g.resp.status = 200 /\ g.resp.body = ValidBody(FALSE)

\* C4: non-object top-level rejection.  A POST to /sign whose body is valid
\* JSON but no object (array, string, number, boolean, null) ends with status
\* 400 and an error body, without a collaborator call.
C4_NonObjectRejected ==
    \A h \in InFlight :
        LET g == handlers[h] IN
        PostOf(g, "/sign") /\ g.body.k \in {"null", "bool", "num", "str", "arr"} =>
            /\ g.pc = "done"
            /\ g.resp.status = 400
            /\ g.resp.body.k = "error"
            /\ g.calls = 0

\* C5: timestamp injection.  The payload a successful /sign returns has the
\* keys of the request's object plus timestamp; its timestamp is the sign-time
\* instant in RFC3339; every other key has exactly the JSON value it had in the
\* request; and the bytes signed are the canonical form of the returned payload.
C5_TimestampInjected ==
    \A h \in InFlight :
        LET g == handlers[h]
            ret == g.resp.body.v.payload
        IN  g.endpoint = "/sign" /\ g.pc = "done" /\ g.resp.status = 200 =>
            /\ ret.k = "obj"
            /\ ObjKeys(ret) = ObjKeys(g.body) \cup {"timestamp"}
            /\ ObjGet(ret, "timestamp") = TStrLit(FormatRFC3339Nano(g.ts), FALSE)
            /\ \A key \in ObjKeys(g.body) \ {"timestamp"} :
                  JsonValue(ObjGet(ret, key)) = JsonValue(ObjGet(g.body, key))
            /\ g.call.data = ret

\* C6: verify result mapping.  When /verify has called the collaborator, the
\* response is 200 with valid = the boolean the collaborator reported, a
\* mismatch included, and it is 500 exactly when the call returned an error.
C6_VerifyResultMapping ==
    \A h \in InFlight :
        LET g == handlers[h] IN
        g.endpoint = "/verify" /\ g.pc = "done" =>
            /\ (g.calls = 1 /\ ~g.reply.err =>
                    g.resp.status = 200 /\ g.resp.body = ValidBody(g.reply.success))
            /\ (g.resp.status = 500 <=> g.calls = 1 /\ g.reply.err)

\* a MAC mismatch reported by the collaborator was answered 200, valid = false
C6_Witness ==
    \E h \in InFlight :
        LET g == handlers[h] IN
        /\ g.endpoint = "/verify"
        /\ g.pc = "done"
        /\ Answered(g)
        /\ ~g.reply.success
        /\ g.resp.status = 200
        /\ g.resp.body = ValidBody(FALSE)

\* C7: malformed input never reaches the collaborator.  A POST to /sign whose
\* body is no JSON, and a POST to /verify whose signature is no base64, end
\* with status 400 and no MacSign or MacVerify call.
C7_MalformedRejected ==
    \A h \in InFlight :
        LET g == handlers[h]
            malformed ==
                \/ g.endpoint = "/sign" /\ g.body.k = "bad"
                \/ g.endpoint = "/verify" /\ g.body.k = "req" /\ g.body.v.signature.k = "notb64"
        IN  g.method = "POST" /\ malformed =>
            /\ g.pc = "done"
            /\ g.resp.status = 400
            /\ g.calls = 0
            /\ g.call = NoCall

\* a signature that is no base64, sent with a payload that canonicalises, was
\* refused with 400 before any call
C7_Witness ==
    \E h \in InFlight :
        LET g == handlers[h] IN
        /\ PostOf(g, "/verify")
        /\ g.body.k = "req"
        /\ g.body.v.signature.k = "notb64"
        /\ ~UnmarshalAny(g.body.v.payload).err
        /\ g.pc = "done"
        /\ g.resp = [status |-> 400, ctype |-> "application/json",
                     body |-> ErrorBody("Firma Base64 inválida")]
        /\ g.calls = 0

\* C8: method enforcement.  A request to /sign or /verify with a method other
\* than POST ends with status 405 and an error body, whatever its body, and
\* without a collaborator call.
C8_MethodEnforced ==
    \A h \in InFlight :
        LET g == handlers[h] IN
        g.method # "POST" =>
            /\ g.pc = "done"
            /\ g.resp.status = 405
            /\ g.resp.body.k = "error"
            /\ g.calls = 0

\* a GET to /sign with a body that a POST would have signed was answered 405
C8_Witness ==
    \E h \in InFlight :
        LET g == handlers[h] IN
        /\ g.endpoint = "/sign"
        /\ g.method = "GET"
        /\ ~g.readErr
        /\ g.body = NestedObject
        /\ g.pc = "done"
        /\ g.resp.status = 405
        /\ g.calls = 0

\* C9: every request ends in exactly one JSON response.  A handler that has
\* ended has written exactly one response, with Content-Type application/json
\* and a status among 200, 400, 405, 500 (an error body unless 200), after at
\* most one collaborator call.
C9_OneJSONResponse ==
    \A h \in InFlight :
        LET g == handlers[h] IN
        Finished(g) =>
            /\ g.writes = 1
            /\ g.resp.ctype = "application/json"
            /\ g.resp.status \in {200, 400, 405, 500}
            /\ (g.resp.status # 200 => g.resp.body.k = "error")
            /\ g.calls <= 1

\* the decoded arrays hold the same elements, each as many times
SameElements(s1, s2) ==
    /\ Len(s1) = Len(s2)
    /\ \A i \in 1..Len(s1) :
          Cardinality({j \in 1..Len(s1) : s1[j] = s1[i]})
              = Cardinality({j \in 1..Len(s2) : s2[j] = s1[i]})

RunAlone(g) ==
    LET start == NewRequest(g.endpoint, g.method, g.readErr, g.body, g.origin)
        entered == IF g.endpoint = "/sign"
                   THEN signHandlerEnter(start, g.ts, StartupName)
                   ELSE verifyHandlerEnter(start, StartupName)
        replied == [entered EXCEPT !.reply = g.reply]
    IN  IF ~g.reply.got THEN entered
        ELSE IF g.endpoint = "/sign" THEN signHandlerReturn(replied)
        ELSE verifyHandlerReturn(replied)

\* C10: request independence under concurrency.  In every interleaving each
\* handler's state, the bytes it sent to the collaborator and its response
\* included, is what the handler run alone gives for the same request, instant
\* and reply; and the key version name and the client handle stay as built at
\* startup.
C10_RequestIndependence ==
    /\ nameVersion = StartupName
    /\ kmsClient = StartupClient
    /\ \A h \in InFlight : handlers[h] = RunAlone(handlers[h])

\* a /sign waits for the collaborator, with its own timestamp, while another
\* /sign has failed with 500 and a third request, if any, is still held
C10_Witness ==
    \E h1 \in InFlight, h2 \in InFlight :
        /\ h1 # h2
        /\ handlers[h1].pc = "macSign"
        /\ handlers[h2].endpoint = "/sign"
        /\ handlers[h2].pc = "done"
        /\ handlers[h2].resp.status = 500
        /\ handlers[h1].ts # handlers[h2].ts
=============================================================================
